---- MODULE Spec2Model ----
(***************************************************************************)
(* Model of github.com/davidmdm/env: the command-line tokenizer            *)
(* (CommandLineArgs), lookup composition (joinLookupFuncs, MakeEnvSet),    *)
(* the registry pass (EnvSet.Parse) and the value parsing engine (parse).  *)
(*                                                                         *)
(* Go strings are modelled as sequences of one-character strings, so that  *)
(* prefix tests, trimming, lower-casing, cutting and joining are computed  *)
(* rather than assumed.                                                    *)
(***************************************************************************)
EXTENDS Integers, Sequences, FiniteSets, TLC

VARIABLES
  \* CommandLineArgs: the argument list, the number of tokens consumed, the
  \* table m, the pending flag, the position in the function, and the result
  \* of the last call of the returned closure
  args, pos, m, flag, tpc, got,
  \* the value parsing engine on one destination: its type, the text, the
  \* value held before, the way it is entered, the outcome
  etype, etext, eold, emode, eout,
  \* an EnvSet: the composed lookup, the flags map with the destination of
  \* each flag, the process environment, and the state of Parse: where it
  \* is, the joined error it returned, and of the last pass the destinations
  \* before it, the names visited in order and what the lookup gave for each
  lookup, flags, dst, environ, rpc, ret, before, visited, looked,
  \* the number of passes made since the process environment last changed
  passes

argsVars == <<args, pos, m, flag, tpc, got>>

engineVars == <<etype, etext, eold, emode, eout>>

envSetVars ==
  <<lookup, flags, dst, environ, rpc, ret, before, visited, looked, passes>>

vars == <<argsVars, engineVars, envSetVars>>

(***************************************************************************)
(* Bounds of the model.                                                    *)
(***************************************************************************)
\* longest argument list handed to CommandLineArgs
MaxArgs == 3

\* most passes of EnvSet.Parse made over an unchanged process environment
MaxPasses == 2

\* most lookup funcs handed to MakeEnvSet and SetLookupFunc
MaxFuncs == 2

(***************************************************************************)
(* String helpers (package strings).                                       *)
(***************************************************************************)
\* unicode.ToLower on the letters of the model's alphabet
LowerChar(c) ==
  CASE c = "A" -> "a"
    [] c = "B" -> "b"
    [] c = "T" -> "t"
    [] c = "X" -> "x"
    [] OTHER -> c

\* unicode.ToUpper on the letters of the model's alphabet
UpperChar(c) ==
  CASE c = "a" -> "A"
    [] c = "b" -> "B"
    [] c = "t" -> "T"
    [] c = "x" -> "X"
    [] OTHER -> c

ToLower(s) == [k \in 1..Len(s) |-> LowerChar(s[k])]

ToUpper(s) == [k \in 1..Len(s) |-> UpperChar(s[k])]

HasPrefix(s, c) == Len(s) > 0 /\ s[1] = c

\* strings.TrimLeft(s, c): s without its leading run of c
RECURSIVE TrimLeft(_, _)
TrimLeft(s, c) == IF HasPrefix(s, c) THEN TrimLeft(Tail(s), c) ELSE s

\* strings.ReplaceAll(s, old, new) for one-character old and new
ReplaceAll(s, old, new) == [k \in 1..Len(s) |-> IF s[k] = old THEN new ELSE s[k]]

\* index of the first c in s, 0 when there is none
IndexOf(s, c) ==
  IF \E k \in 1..Len(s) : s[k] = c
    THEN CHOOSE k \in 1..Len(s) : s[k] = c /\ \A j \in 1..(k - 1) : s[j] # c
    ELSE 0

\* strings.Cut(s, sep): before, after, found
Cut(s, sep) ==
  LET k == IndexOf(s, sep) IN
    IF k = 0
      THEN [before |-> s, after |-> <<>>, found |-> FALSE]
      ELSE [before |-> SubSeq(s, 1, k - 1),
            after  |-> SubSeq(s, k + 1, Len(s)),
            found  |-> TRUE]

\* strings.Join(elems, sep) for a one-character sep
RECURSIVE Join(_, _)
Join(elems, sep) ==
  IF Len(elems) = 0 THEN <<>>
  ELSE IF Len(elems) = 1 THEN elems[1]
  ELSE elems[1] \o <<sep>> \o Join(Tail(elems), sep)

\* the text "true"
TrueText == <<"t", "r", "u", "e">>

(***************************************************************************)
(* Go maps: functions over the set of keys present.                        *)
(***************************************************************************)
EmptyMap == <<>>

Has(mp, k) == k \in DOMAIN mp

\* m[k] of a map of slices: the nil slice when k is absent
Get(mp, k) == IF k \in DOMAIN mp THEN mp[k] ELSE <<>>

Put(mp, k, v) == [x \in (DOMAIN mp) \cup {k} |-> IF x = k THEN v ELSE mp[x]]

(***************************************************************************)
(* CommandLineArgs: one loop iteration on the table m and the pending flag.*)
(***************************************************************************)
\* the flag case without the recording of a value-less pending flag
ScanFlagCase_NoTrue(st, arg) ==
  LET name == ToLower(TrimLeft(arg, "-"))
      c    == Cut(name, "=")
  IN IF c.found
       THEN [m |-> Put(st.m, c.before, Append(Get(st.m, c.before), c.after)), flag |-> <<>>]
       ELSE [m |-> st.m, flag |-> name]

\* case strings.HasPrefix(arg, "-")
ScanFlagCase(st, arg) ==
  LET m1   == IF st.flag # <<>> /\ Len(Get(st.m, st.flag)) = 0
                THEN Put(st.m, st.flag, <<TrueText>>)
                ELSE st.m
      name == ToLower(TrimLeft(arg, "-"))
      c    == Cut(name, "=")
  IN IF c.found
       THEN [m |-> Put(m1, c.before, Append(Get(m1, c.before), c.after)), flag |-> <<>>]
       ELSE [m |-> m1, flag |-> name]

\* case flag == "": positional arguments are skipped
ScanPositionalCase(st, arg) == st

\* the value case leaving the flag pending
ScanValueCase_StaysPending(st, arg) ==
  [m |-> Put(st.m, st.flag, Append(Get(st.m, st.flag), arg)), flag |-> st.flag]

\* default: the token is the value of the pending flag
ScanValueCase(st, arg) ==
  [m |-> Put(st.m, st.flag, Append(Get(st.m, st.flag), arg)), flag |-> <<>>]

\* the switch with the pending flag tested before the '-' prefix
ScanArg_PendingFirst(st, arg) ==
  IF st.flag # <<>> THEN ScanValueCase(st, arg)
  ELSE IF HasPrefix(arg, "-") THEN ScanFlagCase(st, arg)
  ELSE ScanPositionalCase(st, arg)

\* the switch of the loop body
ScanArg(st, arg) ==
  IF HasPrefix(arg, "-") THEN ScanFlagCase(st, arg)
  ELSE IF st.flag = <<>> THEN ScanPositionalCase(st, arg)
  ELSE ScanValueCase(st, arg)

\* the whole loop: the table after the last token
RECURSIVE ScanAll(_, _)
ScanAll(st, as) == IF Len(as) = 0 THEN st ELSE ScanAll(ScanArg(st, as[1]), Tail(as))

\* the table the returned closure captures
ArgsTable(as) == ScanAll([m |-> EmptyMap, flag |-> <<>>], as).m

\* the closure without the replacement of underscores
ArgsLookup_NoDashes(tab, name) ==
  [value |-> Join(Get(tab, ToLower(name)), ","), ok |-> Has(tab, ToLower(name))]

\* the returned closure: name -> (value, ok)
ArgsLookup(tab, name) ==
  LET key == ReplaceAll(ToLower(name), "_", "-") IN
    [value |-> Join(Get(tab, key), ","), ok |-> Has(tab, key)]

(***************************************************************************)
(* More string helpers used by the value parsing engine.                   *)
(***************************************************************************)
IsSpace(c) == c = " "

RECURSIVE TrimSpaceLeft(_)
TrimSpaceLeft(s) == IF Len(s) > 0 /\ IsSpace(s[1]) THEN TrimSpaceLeft(Tail(s)) ELSE s

RECURSIVE TrimSpaceRight(_)
TrimSpaceRight(s) ==
  IF Len(s) > 0 /\ IsSpace(s[Len(s)])
    THEN TrimSpaceRight(SubSeq(s, 1, Len(s) - 1))
    ELSE s

\* strings.TrimSpace
TrimSpace(s) == TrimSpaceRight(TrimSpaceLeft(s))

\* strings.Split(s, sep) for a one-character sep: always at least one item
RECURSIVE Split(_, _)
Split(s, sep) ==
  LET c == Cut(s, sep) IN
    IF c.found THEN <<c.before>> \o Split(c.after, sep) ELSE <<s>>

(***************************************************************************)
(* Errors: nil is the empty sequence, an error is the sequence of the      *)
(* parts of its message, outermost wrapping first.                         *)
(***************************************************************************)
NoErr == <<>>

Err(msg, arg) == << [msg |-> msg, arg |-> arg] >>

\* fmt.Errorf("<msg>: %s: %w", arg, cause)
Wrap(msg, arg, cause) == Err(msg, arg) \o cause

(***************************************************************************)
(* Scalar coercion (package strconv), on texts without base prefixes and   *)
(* underscores: the texts of the model hold neither.                       *)
(***************************************************************************)
Digits == {"0", "1", "2", "3", "4", "5", "6", "7", "8", "9"}

DigitVal(c) ==
  CASE c = "0" -> 0 [] c = "1" -> 1 [] c = "2" -> 2 [] c = "3" -> 3
    [] c = "4" -> 4 [] c = "5" -> 5 [] c = "6" -> 6 [] c = "7" -> 7
    [] c = "8" -> 8 [] c = "9" -> 9

RECURSIVE DecimalVal(_)
DecimalVal(s) ==
  IF Len(s) = 0 THEN 0
  ELSE 10 * DecimalVal(SubSeq(s, 1, Len(s) - 1)) + DigitVal(s[Len(s)])

\* a run of decimal digits that base 0 reads as decimal (no leading zero)
IsDecimal(s) ==
  /\ Len(s) > 0
  /\ \A k \in 1..Len(s) : s[k] \in Digits
  /\ (Len(s) > 1 => s[1] # "0")

\* 2^n
RECURSIVE Pow2(_)
Pow2(n) == IF n = 0 THEN 1 ELSE 2 * Pow2(n - 1)

\* the widths whose range the model's literals can leave
NarrowBits == {8, 16}

\* strconv.ParseInt(text, 0, bits)
ParseInt(text, bits) ==
  LET neg  == HasPrefix(text, "-")
      body == IF HasPrefix(text, "-") \/ HasPrefix(text, "+") THEN Tail(text) ELSE text
  IN IF ~IsDecimal(body)
       THEN [err |-> Err("strconv.ParseInt: invalid syntax", text), val |-> 0]
     ELSE LET n == IF neg THEN 0 - DecimalVal(body) ELSE DecimalVal(body) IN
       IF bits \in NarrowBits /\ (n < 0 - Pow2(bits - 1) \/ n > Pow2(bits - 1) - 1)
         THEN [err |-> Err("strconv.ParseInt: value out of range", text), val |-> 0]
         ELSE [err |-> NoErr, val |-> n]

\* strconv.ParseUint(text, 0, bits): no sign is accepted
ParseUint(text, bits) ==
  IF ~IsDecimal(text)
    THEN [err |-> Err("strconv.ParseUint: invalid syntax", text), val |-> 0]
  ELSE IF bits \in NarrowBits /\ DecimalVal(text) > Pow2(bits) - 1
    THEN [err |-> Err("strconv.ParseUint: value out of range", text), val |-> 0]
  ELSE [err |-> NoErr, val |-> DecimalVal(text)]

TrueTexts ==
  { <<"1">>, <<"t">>, <<"T">>, <<"T", "R", "U", "E">>, <<"t", "r", "u", "e">>,
    <<"T", "r", "u", "e">> }

FalseTexts ==
  { <<"0">>, <<"f">>, <<"F">>, <<"F", "A", "L", "S", "E">>,
    <<"f", "a", "l", "s", "e">>, <<"F", "a", "l", "s", "e">> }

\* strconv.ParseBool(text)
ParseBool(text) ==
  IF text \in TrueTexts THEN [err |-> NoErr, val |-> TRUE]
  ELSE IF text \in FalseTexts THEN [err |-> NoErr, val |-> FALSE]
  ELSE [err |-> Err("strconv.ParseBool: invalid syntax", text), val |-> FALSE]

(***************************************************************************)
(* Destination types.  A type is known by its name; TypeOf gives what      *)
(* reflection and the method sets tell about it:                           *)
(*   kind  the reflect.Kind of the type                                    *)
(*   bits  t.Bits() of an integer kind                                     *)
(*   elem  the element type of a slice, map or pointer                     *)
(*   key   the key type of a map                                           *)
(*   text  the receiver of its UnmarshalText method: "ptr", "val", "none"  *)
(*   bin   the receiver of its UnmarshalBinary method, likewise            *)
(* CapText, Base64Text and Custom are the types of the tests; UpperBoth,   *)
(* UpperList and RawMap are declared like them, with hooks on a type that  *)
(* has both hooks, on a slice kind and on a map kind.                      *)
(***************************************************************************)
Plain(kind, bits, elem, key) ==
  [kind |-> kind, bits |-> bits, elem |-> elem, key |-> key,
   text |-> "none", bin |-> "none"]

TypeOf(name) ==
  CASE name = "string"  -> Plain("string", 0, "", "")
    [] name = "int"     -> Plain("int", 64, "", "")
    [] name = "int8"    -> Plain("int", 8, "", "")
    [] name = "uint"    -> Plain("uint", 64, "", "")
    [] name = "uint8"   -> Plain("uint", 8, "", "")
    [] name = "bool"    -> Plain("bool", 0, "", "")
    [] name = "[]byte"  -> Plain("slice", 0, "uint8", "")
    [] name = "[]string" -> Plain("slice", 0, "string", "")
    [] name = "[]int"   -> Plain("slice", 0, "int", "")
    [] name = "[]bool"  -> Plain("slice", 0, "bool", "")
    [] name = "[][]int" -> Plain("slice", 0, "[]int", "")
    [] name = "[]CapText" -> Plain("slice", 0, "CapText", "")
    [] name = "map[string]int" -> Plain("map", 0, "int", "string")
    [] name = "map[bool]int"   -> Plain("map", 0, "int", "bool")
    [] name = "map[int]bool"   -> Plain("map", 0, "bool", "int")
    [] name = "map[string][]int" -> Plain("map", 0, "[]int", "string")
    [] name = "map[CapText]Base64Text" -> Plain("map", 0, "Base64Text", "CapText")
    [] name = "*int"    -> Plain("ptr", 0, "int", "")
    [] name = "struct{}" -> Plain("struct", 0, "", "")
    [] name = "any"     -> Plain("interface", 0, "", "")
    [] name = "CapText" ->
         [kind |-> "string", bits |-> 0, elem |-> "", key |-> "",
          text |-> "ptr", bin |-> "none"]
    [] name = "Base64Text" ->
         [kind |-> "string", bits |-> 0, elem |-> "", key |-> "",
          text |-> "none", bin |-> "ptr"]
    [] name = "Custom" ->
         [kind |-> "struct", bits |-> 0, elem |-> "", key |-> "",
          text |-> "ptr", bin |-> "none"]
    [] name = "UpperBoth" ->
         [kind |-> "string", bits |-> 0, elem |-> "", key |-> "",
          text |-> "ptr", bin |-> "ptr"]
    [] name = "UpperList" ->
         [kind |-> "slice", bits |-> 0, elem |-> "int", key |-> "",
          text |-> "ptr", bin |-> "none"]
    [] name = "RawMap" ->
         [kind |-> "map", bits |-> 0, elem |-> "int", key |-> "string",
          text |-> "none", bin |-> "ptr"]

(***************************************************************************)
(* Values, tagged by their shape:                                          *)
(*   <<"str", s>>  <<"int", n>>  <<"bool", b>>  <<"bytes", s>>              *)
(*   <<"slice", seq>>  <<"map", function>>  <<"ptr", value>>               *)
(*   <<"nil">>  a nil slice, map, pointer or interface                     *)
(*   <<"struct">>  the zero struct,  <<"json", s>>  a Custom holding the   *)
(*   JSON value of s                                                       *)
(***************************************************************************)
Nil == <<"nil">>

Str(s) == <<"str", s>>

\* the zero value of a type
Zero(name) ==
  LET k == TypeOf(name).kind IN
    CASE k = "string" -> Str(<<>>)
      [] k \in {"int", "uint"} -> <<"int", 0>>
      [] k = "bool" -> <<"bool", FALSE>>
      [] k = "struct" -> <<"struct">>
      [] OTHER -> Nil

(***************************************************************************)
(* The decoding hooks of the test types.                                   *)
(***************************************************************************)
\* what a hook that decoded s stores in a destination of the given kind
Stored(kind, s) ==
  CASE kind = "slice" -> <<"slice", << Str(s) >> >>
    [] kind = "map" -> <<"map", (Str(<<>>) :> Str(s))>>
    [] OTHER -> Str(s)

\* the JSON texts among the texts of the model: numbers and literals, with
\* white space around them
IsJSON(data) ==
  LET b    == TrimSpace(data)
      body == IF HasPrefix(b, "-") THEN Tail(b) ELSE b
  IN \/ (IsDecimal(body) \/ body = <<"0">>)
     \/ b \in { <<"t", "r", "u", "e">>, <<"f", "a", "l", "s", "e">>,
                <<"n", "u", "l", "l">> }

\* CapText.UnmarshalText upper-cases; Custom.UnmarshalText decodes JSON
UnmarshalText(name, old, data) ==
  IF name = "Custom"
    THEN IF IsJSON(data)
           THEN [err |-> NoErr, val |-> <<"json", TrimSpace(data)>>]
           ELSE [err |-> Err("json: invalid", data), val |-> old]
    ELSE [err |-> NoErr, val |-> Stored(TypeOf(name).kind, ToUpper(data))]

Base64Chars ==
  Digits \cup {"a", "b", "t", "x", "y", "A", "B", "T", "X", "Y", "+", "/"}

\* the bytes base64.RawStdEncoding decodes data to, kept as the marked text
Base64Decoded(data) == <<"base64-decoded:">> \o data

\* Base64Text.UnmarshalBinary
UnmarshalBinary(name, old, data) ==
  IF (\A k \in 1..Len(data) : data[k] \in Base64Chars) /\ Len(data) % 4 # 1
    THEN [err |-> NoErr, val |-> Stored(TypeOf(name).kind, Base64Decoded(data))]
    ELSE [err |-> Err("illegal base64 data", data), val |-> old]

(***************************************************************************)
(* The value parsing engine.  A reflect.Value v is                         *)
(*   [typ |-> T, addr |-> b, val |-> x]                                    *)
(* addr = TRUE: v is the pointer to a variable of type T holding x (what   *)
(* genericValue.Parse passes); addr = FALSE: v is a value of type T (a     *)
(* slice element, a map key or value).  The outcome is the error, the      *)
(* value the variable holds afterwards and the hooks called.               *)
(***************************************************************************)
\* v.Interface().(encoding.TextUnmarshaler): the method set of *T holds the
\* methods of both receivers, that of T the value receivers only
ImplementsText(v) ==
  IF v.addr THEN TypeOf(v.typ).text # "none" ELSE TypeOf(v.typ).text = "val"

ImplementsBinary(v) ==
  IF v.addr THEN TypeOf(v.typ).bin # "none" ELSE TypeOf(v.typ).bin = "val"

Outcome(err, val, calls) == [err |-> err, val |-> val, calls |-> calls]

Call(hook, data) == << [hook |-> hook, data |-> data] >>

RECURSIVE parse(_, _, _), parseKind(_, _, _, _), parseItems(_, _, _), parseEntries(_, _, _)

\* itemParsed with the element put in front of those set so far
itemParsed_InFront(acc, r) ==
  IF r.err # NoErr
    THEN [err |-> r.err, vals |-> <<>>, calls |-> acc.calls \o r.calls]
    ELSE [err |-> NoErr, vals |-> <<r.val>> \o acc.vals, calls |-> acc.calls \o r.calls]

\* one round of the loop "for i, subtext := range items", r being what parse
\* gave on the element: the error is returned, or the element is set
itemParsed(acc, r) ==
  IF r.err # NoErr
    THEN [err |-> r.err, vals |-> <<>>, calls |-> acc.calls \o r.calls]
    ELSE [err |-> NoErr, vals |-> Append(acc.vals, r.val), calls |-> acc.calls \o r.calls]

\* the loop over the items with the elements parsed as if at top level
RECURSIVE parseItems_TopLevel(_, _, _)
parseItems_TopLevel(elemType, items, acc) ==
  IF Len(items) = 0 \/ acc.err # NoErr THEN acc
  ELSE parseItems_TopLevel(elemType, Tail(items),
                  itemParsed(acc, parse([typ |-> elemType, addr |-> FALSE,
                                         val |-> Zero(elemType)], items[1], TRUE)))

\* the loop "for i, subtext := range items", acc being its state so far:
\* it stops at the first error
parseItems(elemType, items, acc) ==
  IF Len(items) = 0 \/ acc.err # NoErr THEN acc
  ELSE parseItems(elemType, Tail(items),
                  itemParsed(acc, parse([typ |-> elemType, addr |-> FALSE,
                                         val |-> Zero(elemType)], items[1], FALSE)))

\* entryParsed with a key already in the target kept as it is
entryParsed_FirstWins(acc, c, k, e) ==
  IF k.err # NoErr
    THEN [err |-> Wrap("failed to parse key", c.before, k.err),
          target |-> acc.target, calls |-> acc.calls \o k.calls]
  ELSE IF e.err # NoErr
    THEN [err |-> Wrap("failed to parse value at key", c.before, e.err),
          target |-> acc.target, calls |-> acc.calls \o k.calls \o e.calls]
  ELSE [err |-> NoErr,
        target |-> IF Has(acc.target, k.val) THEN acc.target
                   ELSE Put(acc.target, k.val, e.val),
        calls |-> acc.calls \o k.calls \o e.calls]

\* entryParsed with the value looked at before the key
entryParsed_ValueFirst(acc, c, k, e) ==
  IF e.err # NoErr
    THEN [err |-> Wrap("failed to parse value at key", c.before, e.err),
          target |-> acc.target, calls |-> acc.calls \o k.calls \o e.calls]
  ELSE IF k.err # NoErr
    THEN [err |-> Wrap("failed to parse key", c.before, k.err),
          target |-> acc.target, calls |-> acc.calls \o k.calls]
  ELSE [err |-> NoErr, target |-> Put(acc.target, k.val, e.val),
        calls |-> acc.calls \o k.calls \o e.calls]

\* one round of the map loop on an element holding "=", k and e being what
\* parse gave on the key and on the value: e counts only when k has no error
entryParsed(acc, c, k, e) ==
  IF k.err # NoErr
    THEN [err |-> Wrap("failed to parse key", c.before, k.err),
          target |-> acc.target, calls |-> acc.calls \o k.calls]
  ELSE IF e.err # NoErr
    THEN [err |-> Wrap("failed to parse value at key", c.before, e.err),
          target |-> acc.target, calls |-> acc.calls \o k.calls \o e.calls]
  ELSE [err |-> NoErr, target |-> Put(acc.target, k.val, e.val),
        calls |-> acc.calls \o k.calls \o e.calls]

\* one round of the map loop, c being strings.Cut(elem, "="): an element
\* without "=" is skipped
entryCut(name, acc, c) ==
  IF ~c.found THEN acc
  ELSE entryParsed(acc, c,
         parse([typ |-> TypeOf(name).key, addr |-> FALSE,
                val |-> Zero(TypeOf(name).key)], c.before, FALSE),
         parse([typ |-> TypeOf(name).elem, addr |-> FALSE,
                val |-> Zero(TypeOf(name).elem)], c.after, FALSE))

\* the loop "for _, elem := range strings.Split(text, ",")", acc being its
\* state so far: the target map, the error and the hooks called
parseEntries(name, elems, acc) ==
  IF Len(elems) = 0 \/ acc.err # NoErr THEN acc
  ELSE parseEntries(name, Tail(elems), entryCut(name, acc, Cut(elems[1], "=")))

\* sliceParsed with the elements appended to those the variable holds
sliceParsed_Appends(cur, r) ==
  IF r.err # NoErr THEN Outcome(r.err, cur, r.calls)
  ELSE Outcome(NoErr,
               <<"slice", (IF cur = Nil THEN <<>> ELSE cur[2]) \o r.vals>>,
               r.calls)

\* the end of the slice case, r being what the loop over the items gave and
\* cur what the variable holds when the loop begins
sliceParsed(cur, r) ==
  IF r.err # NoErr THEN Outcome(r.err, cur, r.calls)
  ELSE Outcome(NoErr, <<"slice", r.vals>>, r.calls)

\* the end of the map case: v.Set(target) when the loop gave no error
mapParsed(cur, r) ==
  IF r.err # NoErr THEN Outcome(r.err, cur, r.calls)
  ELSE Outcome(NoErr, <<"map", r.target>>, r.calls)

\* the switch on t.Kind(), cur being what the variable of type name holds
parseKind(name, cur, text, topLevel) ==
  LET t == TypeOf(name) IN
  CASE t.kind = "string" -> Outcome(NoErr, Str(text), <<>>)
    [] t.kind = "int" ->
         LET r == ParseInt(text, t.bits) IN
           IF r.err # NoErr THEN Outcome(r.err, cur, <<>>)
           ELSE Outcome(NoErr, <<"int", r.val>>, <<>>)
    [] t.kind = "uint" ->
         LET r == ParseUint(text, t.bits) IN
           IF r.err # NoErr THEN Outcome(r.err, cur, <<>>)
           ELSE Outcome(NoErr, <<"int", r.val>>, <<>>)
    [] t.kind = "bool" ->
         LET r == ParseBool(text) IN
           IF r.err # NoErr THEN Outcome(r.err, cur, <<>>)
           ELSE Outcome(NoErr, <<"bool", r.val>>, <<>>)
    [] t.kind = "slice" ->
         IF ~topLevel THEN Outcome(Err("cannot support deep slices", <<>>), cur, <<>>)
         ELSE IF TypeOf(t.elem).kind = "uint" /\ TypeOf(t.elem).bits = 8
           THEN Outcome(NoErr, <<"bytes", text>>, <<>>)
         ELSE
           \* an empty text sets the empty slice, and the loop still runs
           sliceParsed(IF TrimSpace(text) = <<>> THEN <<"slice", <<>> >> ELSE cur,
                       parseItems(t.elem, Split(text, ","),
                                  [err |-> NoErr, vals |-> <<>>, calls |-> <<>>]))
    [] t.kind = "map" ->
         IF ~topLevel THEN Outcome(Err("cannot support deep maps", <<>>), cur, <<>>)
         ELSE IF TrimSpace(text) = <<>> THEN Outcome(NoErr, cur, <<>>)
         ELSE mapParsed(cur, parseEntries(name, Split(TrimSpace(text), ","),
                                          [err |-> NoErr, target |-> EmptyMap,
                                           calls |-> <<>>]))
    [] OTHER -> Outcome(NoErr, cur, <<>>)

\* the variable a pointer variable points to: fresh zero storage when the
\* pointer is nil
pointee(v) == IF v.val = Nil THEN Zero(TypeOf(v.typ).elem) ELSE v.val[2]

\* what the pointer variable holds after the switch ran on its pointee
pointerParsed(r) == Outcome(r.err, <<"ptr", r.val>>, r.calls)

\* parse with the binary hook tried before the text hook
parse_BinaryFirst(v, text, topLevel) ==
  IF ImplementsBinary(v)
    THEN LET r == UnmarshalBinary(v.typ, v.val, text) IN
           Outcome(r.err, r.val, Call("UnmarshalBinary", text))
  ELSE IF ImplementsText(v)
    THEN LET r == UnmarshalText(v.typ, v.val, text) IN
           Outcome(r.err, r.val, Call("UnmarshalText", text))
  ELSE IF TypeOf(v.typ).kind = "ptr"
    THEN pointerParsed(parseKind(TypeOf(v.typ).elem, pointee(v), text, topLevel))
  ELSE parseKind(v.typ, v.val, text, topLevel)

\* parse(v, text, topLevel)
parse(v, text, topLevel) ==
  IF ImplementsText(v)
    THEN LET r == UnmarshalText(v.typ, v.val, text) IN
           Outcome(r.err, r.val, Call("UnmarshalText", text))
  ELSE IF ImplementsBinary(v)
    THEN LET r == UnmarshalBinary(v.typ, v.val, text) IN
           Outcome(r.err, r.val, Call("UnmarshalBinary", text))
  ELSE IF TypeOf(v.typ).kind = "ptr"
    \* the indirection loop: a nil pointer is given fresh storage first
    THEN pointerParsed(parseKind(TypeOf(v.typ).elem, pointee(v), text, topLevel))
  ELSE parseKind(v.typ, v.val, text, topLevel)

\* genericValue.Parse: the engine at top level on the pointer to the variable
GenericParse(name, cur, envvar) ==
  parse([typ |-> name, addr |-> TRUE, val |-> cur], envvar, TRUE)

(***************************************************************************)
(* Lookup functions.  A LookupFunc value is one of                         *)
(*   "nil"              the nil func                                       *)
(*   "os.LookupEnv"     the process environment                            *)
(*   "CommandLineArgs"  the closure CommandLineArgs(CliArgs...) returned   *)
(***************************************************************************)
\* the arguments of the command-line lookup of an EnvSet:  --a=x=3
CliArgs == << <<"-", "-", "a", "=", "x", "=", "3">> >>

\* os.LookupEnv on the environment env
LookupEnv(env, key) ==
  IF Has(env, key) THEN [value |-> env[key], ok |-> TRUE]
  ELSE [value |-> <<>>, ok |-> FALSE]

\* fn(key) for a func that is not nil
CallFn(fn, env, key) ==
  IF fn = "CommandLineArgs" THEN ArgsLookup(ArgsTable(CliArgs), key)
  ELSE LookupEnv(env, key)

\* the loop of the closure of joinLookupFuncs from index i on, value being
\* the named result so far; calls lists the indexes of the funcs called and
\* panic tells that a nil func was called
RECURSIVE joinFrom(_, _, _, _, _, _)
joinFrom(fns, env, key, i, value, calls) ==
  IF i > Len(fns)
    THEN [value |-> value, ok |-> FALSE, calls |-> calls, panic |-> FALSE]
  ELSE IF fns[i] = "nil"
    THEN [value |-> value, ok |-> FALSE, calls |-> Append(calls, i), panic |-> TRUE]
  ELSE LET r == CallFn(fns[i], env, key) IN
    IF r.ok
      THEN [value |-> r.value, ok |-> TRUE, calls |-> Append(calls, i), panic |-> FALSE]
      ELSE joinFrom(fns, env, key, i + 1, r.value, Append(calls, i))

\* joinLookupFuncs with the loop not left at the first func that finds the
\* key: the last func that finds it wins
RECURSIVE joinLastFrom(_, _, _, _, _)
joinLastFrom(fns, env, key, i, acc) ==
  IF i > Len(fns) THEN acc
  ELSE IF fns[i] = "nil" THEN [acc EXCEPT !.calls = Append(@, i), !.panic = TRUE]
  ELSE LET r == CallFn(fns[i], env, key) IN
    joinLastFrom(fns, env, key, i + 1,
                 [value |-> IF r.ok \/ ~acc.ok THEN r.value ELSE acc.value,
                  ok    |-> acc.ok \/ r.ok,
                  calls |-> Append(acc.calls, i),
                  panic |-> FALSE])

joinLookupFuncs_LastFound(fns, env, key) ==
  joinLastFrom(fns, env, key, 1,
               [value |-> <<>>, ok |-> FALSE, calls |-> <<>>, panic |-> FALSE])

\* joinLookupFuncs(fns...)(key)
joinLookupFuncs(fns, env, key) == joinFrom(fns, env, key, 1, <<>>, <<>>)

\* the lookup field of an EnvSet: os.LookupEnv itself (direct), or the
\* closure of joinLookupFuncs over fns
DirectLookup == [direct |-> TRUE, fns |-> <<>>]

JoinedLookup(fns) == [direct |-> FALSE, fns |-> fns]

\* env.lookup(name)
Lookup(lk, env, key) ==
  IF lk.direct
    THEN LET r == LookupEnv(env, key) IN
           [value |-> r.value, ok |-> r.ok, calls |-> <<>>, panic |-> FALSE]
    ELSE joinLookupFuncs(lk.fns, env, key)

\* MakeEnvSet(funcs...): the lookup of the new EnvSet
MakeEnvSet(funcs) ==
  LET lookupFuncs == SelectSeq(funcs, LAMBDA fn : fn # "nil") IN
    IF Len(lookupFuncs) > 0 THEN JoinedLookup(lookupFuncs) ELSE DirectLookup

(***************************************************************************)
(* Options and flags.                                                      *)
(***************************************************************************)
\* Options[T].toFlagOptions
toFlagOptions(opt) == [required |-> opt.Required, fallback |-> opt.DefaultValue]

\* multiOpts[T].toFlagOptions taking the last Options instead of the first
multiToFlagOptions_Last(name, opts) ==
  IF Len(opts) = 0
    THEN [required |-> FALSE, fallback |-> Zero(name)]
    ELSE toFlagOptions(opts[Len(opts)])

\* multiOpts[T].toFlagOptions
multiToFlagOptions(name, opts) ==
  IF Len(opts) = 0
    THEN [required |-> FALSE, fallback |-> Zero(name)]
    ELSE toFlagOptions(opts[1])

\* value.(T) of genericValue.Set panics on the nil interface, which is what
\* the zero value and a nil DefaultValue of an interface type T are
SetPanics(name, value) == TypeOf(name).kind = "interface" /\ value = Nil

(***************************************************************************)
(* EnvSet.Parse: the loop over the flags map in the order Go happens to    *)
(* iterate it.  The state of the loop is                                   *)
(*   dst, errs     the destinations and the errors appended so far         *)
(*   visited       the names whose iteration has begun                     *)
(*   looked        for each of them what env.lookup returned               *)
(*   panic         whether the pass ended in a panic                       *)
(***************************************************************************)
\* the end of an iteration whose name was found, p being what
\* genericValue.Parse gave on the text found
flagParsed(s1, name, p) ==
  IF p.err # NoErr
    THEN [s1 EXCEPT !.dst = Put(@, name, p.val),
                    !.errs = Append(@, Wrap("failed to parse", name, p.err))]
    ELSE [s1 EXCEPT !.dst = Put(@, name, p.val)]

\* one iteration on the flag called name, r being what env.lookup(name)
\* returned, with the fallback applied before the required check
ParseFlag_FallbackFirst(st, fl, name, r) ==
  LET f  == fl[name]
      s1 == [st EXCEPT !.visited = Append(@, name), !.looked = Put(@, name, r)]
      s2 == IF ~r.ok /\ ~SetPanics(f.typ, f.opts.fallback)
              THEN [s1 EXCEPT !.dst = Put(@, name, f.opts.fallback)]
              ELSE s1
  IN IF r.panic THEN [s1 EXCEPT !.panic = TRUE]
     ELSE IF ~r.ok /\ f.opts.required
       THEN [s2 EXCEPT !.errs = Append(@, Err("is required but not found", name))]
     ELSE IF ~r.ok
       THEN IF SetPanics(f.typ, f.opts.fallback) THEN [s1 EXCEPT !.panic = TRUE] ELSE s2
     ELSE flagParsed(s1, name, GenericParse(f.typ, st.dst[name], r.value))

\* one iteration on the flag called name, r being what env.lookup(name)
\* returned
ParseFlag(st, fl, name, r) ==
  LET f  == fl[name]
      s1 == [st EXCEPT !.visited = Append(@, name), !.looked = Put(@, name, r)]
  IN IF r.panic THEN [s1 EXCEPT !.panic = TRUE]
     ELSE IF ~r.ok /\ f.opts.required
       THEN [s1 EXCEPT !.errs = Append(@, Err("is required but not found", name))]
     ELSE IF ~r.ok
       THEN IF SetPanics(f.typ, f.opts.fallback)
              THEN [s1 EXCEPT !.panic = TRUE]
              ELSE [s1 EXCEPT !.dst = Put(@, name, f.opts.fallback)]
     ELSE flagParsed(s1, name, GenericParse(f.typ, st.dst[name], r.value))

RECURSIVE ParseFlags(_, _, _, _, _)

\* the loop left at the first error instead of continued
RECURSIVE ParseFlags_StopAtError(_, _, _, _, _)
ParseFlags_StopAtError(st, fl, lk, env, order) ==
  IF Len(order) = 0 \/ st.panic \/ Len(st.errs) > 0 THEN st
  ELSE ParseFlags_StopAtError(ParseFlag(st, fl, order[1], Lookup(lk, env, order[1])),
                              fl, lk, env, Tail(order))

ParseFlags(st, fl, lk, env, order) ==
  IF Len(order) = 0 \/ st.panic THEN st
  ELSE ParseFlags(ParseFlag(st, fl, order[1], Lookup(lk, env, order[1])),
                  fl, lk, env, Tail(order))

\* errors.Join(errs...): nil when there is no error to join
ErrorsJoin(errs) == [nil |-> Len(errs) = 0, errs |-> errs]

\* the orders a map over the keys ks can be iterated in
Orders(ks) ==
  { o \in [1..Cardinality(ks) -> ks] : \A i, j \in 1..Cardinality(ks) : i # j => o[i] # o[j] }

(***************************************************************************)
(* The values the model's variables and options are drawn from.            *)
(***************************************************************************)
\* a value of the type other than its zero value, as a variable may hold
\* before Parse
Sample(name) ==
  LET t == TypeOf(name) IN
    CASE t.kind = "string" -> Str(<<"s">>)
      [] t.kind \in {"int", "uint"} -> <<"int", 7>>
      [] t.kind = "bool" -> <<"bool", TRUE>>
      [] t.kind = "slice" ->
           IF t.elem = "uint8" THEN <<"bytes", <<"s">> >>
           ELSE <<"slice", << Zero(t.elem) >> >>
      [] t.kind = "map" -> <<"map", (Zero(t.key) :> Zero(t.elem))>>
      [] t.kind = "ptr" -> <<"ptr", <<"int", 7>> >>
      [] t.kind = "struct" -> IF name = "Custom" THEN <<"json", <<"7">> >> ELSE <<"struct">>
      [] OTHER -> Str(<<"s">>)

\* a value of the type given as DefaultValue
Default(name) ==
  LET t == TypeOf(name) IN
    CASE t.kind = "string" -> Str(<<"d">>)
      [] t.kind \in {"int", "uint"} -> <<"int", 5>>
      [] t.kind = "bool" -> <<"bool", TRUE>>
      [] t.kind = "slice" -> <<"slice", <<>> >>
      [] t.kind = "map" -> <<"map", EmptyMap>>
      [] t.kind = "ptr" -> <<"ptr", <<"int", 5>> >>
      [] t.kind = "struct" -> <<"struct">>
      [] OTHER -> Str(<<"d">>)

InitValues(name) == {Zero(name), Sample(name)}

\* the Options lists FlagVar is called with: none, one that requires the
\* name, one that gives a default, and two of which the first gives a
\* default and the second requires the name
OptionLists(name) ==
  LET req == [Required |-> TRUE, DefaultValue |-> Default(name)]
      def == [Required |-> FALSE, DefaultValue |-> Default(name)]
  IN { <<>>, <<req>>, <<def>>, <<def, req>> }

\* the names flags are registered under:  A   B
Names == { <<"A">>, <<"B">> }

\* the values the process environment gives a name:  ""   3   x=3
EnvTexts == { <<>>, <<"3">>, <<"x", "=", "3">> }

\* the process environments
EnvStates == UNION { [ns -> EnvTexts] : ns \in SUBSET Names }

\* the lists of at most n lookup funcs
FuncLists(n) ==
  UNION { [1..k -> {"nil", "os.LookupEnv", "CommandLineArgs"}] : k \in 0..n }

(***************************************************************************)
(* CommandLineArgs as a state machine: one action per loop iteration.      *)
(***************************************************************************)
\* the tokens argument lists are drawn from:
\*   --a   -A   --a=B   -b=a=B   b   B   --a-b   -
Tokens ==
  { <<"-", "-", "a">>,
    <<"-", "A">>,
    <<"-", "-", "a", "=", "B">>,
    <<"-", "b", "=", "a", "=", "B">>,
    <<"b">>,
    <<"B">>,
    <<"-", "-", "a", "-", "b">>,
    <<"-">>,
    <<"-", "5">> }

\* the argument lists of at most n tokens
ArgLists(n) == UNION { [1..k -> Tokens] : k \in 0..n }

\* os.Args[1:] of the hosting process
OsArgLists == { <<>>, << <<"-", "-", "a", "-", "b">> >> }

\* the names the closure is asked for:  A   b   A_B   a-b
LookupNames ==
  { <<"A">>, <<"b">>, <<"A", "_", "B">>, <<"a", "-", "b">> }

NoLookup == [asked |-> FALSE, name |-> <<>>, value |-> <<>>, ok |-> FALSE]

NoOutcome == Outcome(NoErr, Nil, <<>>)

\* the parts of the state a specification does not exercise
ArgsIdle ==
  /\ args = <<>> /\ pos = 0 /\ m = EmptyMap /\ flag = <<>>
  /\ tpc = "off" /\ got = NoLookup

EngineIdle ==
  /\ etype = "" /\ etext = <<>> /\ eold = Nil /\ emode = "off" /\ eout = NoOutcome

EnvSetIdle ==
  /\ lookup = DirectLookup /\ flags = EmptyMap /\ dst = EmptyMap
  /\ environ = EmptyMap /\ rpc = "off" /\ ret = ErrorsJoin(<<>>)
  /\ before = EmptyMap /\ visited = <<>> /\ looked = EmptyMap
  /\ passes = 0

ArgsInit ==
  /\ \E given \in ArgLists(MaxArgs), os \in OsArgLists :
       args = IF Len(given) = 0 THEN os ELSE given
  /\ pos = 0
  /\ m = EmptyMap
  /\ flag = <<>>
  /\ tpc = "scan"
  /\ got = NoLookup
  /\ EngineIdle /\ EnvSetIdle

\* one iteration of the loop on the next token, st being its outcome
ScanStep(st) ==
  /\ pos' = pos + 1
  /\ m' = st.m
  /\ flag' = st.flag
  /\ UNCHANGED <<args, tpc, got, engineVars, envSetVars>>

ScanFlagToken ==
  /\ tpc = "scan" /\ pos < Len(args)
  /\ HasPrefix(args[pos + 1], "-")
  /\ ScanStep(ScanArg([m |-> m, flag |-> flag], args[pos + 1]))

SkipPositional ==
  /\ tpc = "scan" /\ pos < Len(args)
  /\ ~HasPrefix(args[pos + 1], "-") /\ flag = <<>>
  /\ ScanStep(ScanArg([m |-> m, flag |-> flag], args[pos + 1]))

ScanValueToken ==
  /\ tpc = "scan" /\ pos < Len(args)
  /\ ~HasPrefix(args[pos + 1], "-") /\ flag # <<>>
  /\ ScanStep(ScanArg([m |-> m, flag |-> flag], args[pos + 1]))

\* the loop is over: the closure over m is returned
ReturnLookupFunc ==
  /\ tpc = "scan" /\ pos = Len(args)
  /\ tpc' = "done"
  /\ UNCHANGED <<args, pos, m, flag, got, engineVars, envSetVars>>

\* a call of the returned closure
CallLookupFunc ==
  /\ tpc = "done"
  /\ \E name \in LookupNames :
       LET r == ArgsLookup(m, name) IN
         got' = [asked |-> TRUE, name |-> name, value |-> r.value, ok |-> r.ok]
  /\ UNCHANGED <<args, pos, m, flag, tpc, engineVars, envSetVars>>

ArgsNext ==
  \/ ScanFlagToken
  \/ SkipPositional
  \/ ScanValueToken
  \/ ReturnLookupFunc
  \/ CallLookupFunc

ArgsSpec == ArgsInit /\ [][ArgsNext]_vars

(***************************************************************************)
(* The value parsing engine as a state machine: the inputs are drawn in    *)
(* the initial state and one call is made.                                 *)
(***************************************************************************)
EngineTypes ==
  { "string", "int", "int8", "uint", "bool", "[]byte", "[]string", "[]int",
    "[]bool", "[][]int", "[]CapText", "map[string]int", "map[bool]int",
    "map[int]bool", "map[string][]int", "map[CapText]Base64Text", "*int",
    "struct{}", "any", "CapText", "Base64Text", "Custom", "UpperBoth",
    "UpperList", "RawMap" }

\* the texts:  ""  " "  3  -3  300  t  x  aB+/  3,4  3,x  " ,"  a,b
\*             x=3  x=3,y  3=4  x=3,x=4  x=,=3  t=x  " x=3"  3=x,x=3
EngineTexts ==
  { <<>>,
    <<" ">>,
    <<"3">>,
    <<"-", "3">>,
    <<"3", "0", "0">>,
    <<"t">>,
    <<"x">>,
    <<"a", "B", "+", "/">>,
    <<"3", ",", "4">>,
    <<"3", ",", "x">>,
    <<" ", ",">>,
    <<"a", ",", "b">>,
    <<"x", "=", "3">>,
    <<"x", "=", "3", ",", "y">>,
    <<"3", "=", "4">>,
    <<"x", "=", "3", ",", "x", "=", "4">>,
    <<"x", "=", ",", "=", "3">>,
    <<"t", "=", "x">>,
    <<" ", "x", "=", "3">>,
    <<"3", "=", "x", ",", "x", "=", "3">> }

EngineInit ==
  /\ etype \in EngineTypes
  /\ etext \in EngineTexts
  /\ eold \in InitValues(etype)
  /\ emode = "ready"
  /\ eout = NoOutcome
  /\ ArgsIdle /\ EnvSetIdle

\* genericValue.Parse on the variable
ParseTopLevel ==
  /\ emode = "ready"
  /\ emode' = "top"
  /\ eout' = GenericParse(etype, eold, etext)
  /\ UNCHANGED <<etype, etext, eold, argsVars, envSetVars>>

\* the engine as the slice and map cases call it: on a fresh element, key or
\* value of the type, not at top level
ParseElement ==
  /\ emode = "ready" /\ eold = Zero(etype)
  /\ emode' = "elem"
  /\ eout' = parse([typ |-> etype, addr |-> FALSE, val |-> eold], etext, FALSE)
  /\ UNCHANGED <<etype, etext, eold, argsVars, envSetVars>>

EngineNext == ParseTopLevel \/ ParseElement

EngineSpec == EngineInit /\ [][EngineNext]_vars

(***************************************************************************)
(* An EnvSet as a state machine: MakeEnvSet in the initial state, then     *)
(* FlagVar calls and one Parse.                                            *)
(***************************************************************************)
\* the types of the flags of the specification Spec
FlagTypes == { "int", "map[string]int", "any" }

\* FlagVar(envset, p, name, opts...) with T among types and opts among the
\* lists optLists gives; *p holds init
Register(types, name, T, opts, init) ==
  /\ rpc = "idle"
  /\ T \in types
  /\ flags' = Put(flags, name,
                  [typ |-> T, opts |-> multiToFlagOptions(T, opts), given |-> opts])
  /\ dst' = Put(dst, name, init)
  /\ UNCHANGED <<lookup, environ, rpc, ret, before, visited, looked, passes,
                 argsVars, engineVars>>

FlagVar ==
  \E name \in Names, T \in FlagTypes :
    \E opts \in OptionLists(T), init \in InitValues(T) :
      Register(FlagTypes, name, T, opts, init)

\* EnvSet.Parse, called when fewer than limit passes were made since the
\* process environment last changed; a pass that panicked ended the process
ParsePass(limit) ==
  /\ rpc \in {"idle", "returned"} /\ passes < limit
  /\ passes' = passes + 1
  /\ \E order \in Orders(DOMAIN flags) :
       \E st \in { ParseFlags([dst |-> dst, errs |-> <<>>, visited |-> <<>>,
                               looked |-> EmptyMap, panic |-> FALSE],
                              flags, lookup, environ, order) } :
          /\ dst' = st.dst
          /\ before' = dst
          /\ visited' = st.visited
          /\ looked' = st.looked
          /\ rpc' = IF st.panic THEN "panicked" ELSE "returned"
          /\ ret' = IF st.panic THEN ret ELSE ErrorsJoin(st.errs)
  /\ UNCHANGED <<lookup, flags, environ, argsVars, engineVars>>

\* EnvSet.Parse called once
Parse == ParsePass(1)

\* the funcs the EnvSet of Spec is made with: none, or the command line
\* before the environment
SpecFuncLists == { <<>>, <<"CommandLineArgs", "os.LookupEnv">> }

\* an EnvSet made with one of funcLists in a process whose environment is
\* one of envs, before any flag is registered
EnvSetInitOver(funcLists, envs) ==
  /\ \E funcs \in funcLists : lookup = MakeEnvSet(funcs)
  /\ environ \in envs
  /\ flags = EmptyMap /\ dst = EmptyMap
  /\ rpc = "idle" /\ ret = ErrorsJoin(<<>>)
  /\ before = EmptyMap /\ visited = <<>> /\ looked = EmptyMap
  /\ passes = 0
  /\ ArgsIdle /\ EngineIdle

EnvSetInit(funcLists) == EnvSetInitOver(funcLists, EnvStates)

Init == EnvSetInit(SpecFuncLists)

Next == FlagVar \/ Parse

Spec == Init /\ [][Next]_vars

(***************************************************************************)
(* Lookup composition as a state machine: an EnvSet made with any funcs,   *)
(* its lookup replaced by SetLookupFunc, plain flags and one Parse.        *)
(***************************************************************************)
\* the types of the flags of the specification LookupSpec
PlainTypes == { "int", "string" }

\* FlagVar with no Options on a variable holding its zero value
FlagVarPlain ==
  \E name \in Names, T \in PlainTypes :
    Register(PlainTypes, name, T, <<>>, Zero(T))

\* EnvSet.SetLookupFunc(fns...)
SetLookupFunc ==
  /\ rpc = "idle"
  /\ \E fns \in FuncLists(MaxFuncs) : lookup' = JoinedLookup(fns)
  /\ UNCHANGED <<flags, dst, environ, rpc, ret, before, visited, looked, passes,
                 argsVars, engineVars>>

LookupInit == EnvSetInit(FuncLists(MaxFuncs))

LookupNext == FlagVarPlain \/ SetLookupFunc \/ Parse

LookupSpec == LookupInit /\ [][LookupNext]_vars

(***************************************************************************)
(* Repeated passes as a state machine: flags on sequence and mapping       *)
(* variables, passes of Parse one after another, and the process           *)
(* environment changing between passes.                                    *)
(***************************************************************************)
\* the types of the flags of the specification RepeatSpec
RepeatTypes == { "[]int", "map[int]bool" }

\* the texts of its environment variables:  ""  3  3=t  x=3  3=x,x=3
RepeatTexts ==
  { <<>>,
    <<"3">>,
    <<"3", "=", "t">>,
    <<"x", "=", "3">>,
    <<"3", "=", "x", ",", "x", "=", "3">> }

RepeatEnvStates == UNION { [ns -> RepeatTexts] : ns \in SUBSET Names }

\* FlagVar on a variable holding its zero value, with no Options or with
\* Options that require the name
FlagVarRepeat ==
  \E name \in Names, T \in RepeatTypes :
    \E opts \in { <<>>, << [Required |-> TRUE, DefaultValue |-> Zero(T)] >> } :
      Register(RepeatTypes, name, T, opts, Zero(T))

\* one variable of the process environment is set to another text
\* (os.Setenv) or removed (os.Unsetenv) between passes
Setenv ==
  /\ rpc \in {"idle", "returned"}
  /\ \E name \in Names :
       \/ \E text \in RepeatTexts :
            /\ LookupEnv(environ, name) # [value |-> text, ok |-> TRUE]
            /\ environ' = Put(environ, name, text)
       \/ /\ Has(environ, name)
          /\ environ' = [n \in DOMAIN environ \ {name} |-> environ[n]]
  /\ passes' = 0
  /\ UNCHANGED <<lookup, flags, dst, rpc, ret, before, visited, looked,
                 argsVars, engineVars>>

\* EnvSet.Parse called again and again
ParseAgain == ParsePass(MaxPasses)

RepeatInit == EnvSetInitOver({ <<>> }, RepeatEnvStates)

RepeatNext == FlagVarRepeat \/ Setenv \/ ParseAgain

RepeatSpec == RepeatInit /\ [][RepeatNext]_vars

(***************************************************************************)
(* Claims about lookup composition and the Parse pass.                     *)
(***************************************************************************)
\* the i-th func of the composed lookup is a func that finds name n
Finds(i, n) ==
  lookup.fns[i] # "nil" /\ CallFn(lookup.fns[i], environ, n).ok

\* the first func of the composed lookup that finds n
FirstFinder(n) ==
  CHOOSE i \in 1..Len(lookup.fns) : Finds(i, n) /\ \A j \in 1..(i - 1) : ~Finds(j, n)

\* C1: a composed lookup calls its funcs in the order given up to the first
\* one that finds the name, returns that one's value as found, and reports
\* not-found only when it called every func and none found the name; the
\* value of the first finder is the text Parse parses into the destination.
C1_FirstFoundWins ==
  (rpc = "returned" /\ ~lookup.direct) =>
    \A n \in DOMAIN flags :
      IF \E i \in 1..Len(lookup.fns) : Finds(i, n)
        THEN LET v == CallFn(lookup.fns[FirstFinder(n)], environ, n).value IN
               /\ looked[n].ok
               /\ looked[n].value = v
               /\ looked[n].calls = [k \in 1..FirstFinder(n) |-> k]
               /\ dst[n] = GenericParse(flags[n].typ, before[n], v).val
        ELSE /\ ~looked[n].ok
             /\ looked[n].calls = [k \in 1..Len(lookup.fns) |-> k]

\* C1 witness: the command line and the environment both hold a value for A,
\* the command line comes first, is the only func called and its value x=3
\* is what the string destination holds
C1_Witness ==
  /\ rpc = "returned"
  /\ lookup = JoinedLookup(<<"CommandLineArgs", "os.LookupEnv">>)
  /\ <<"A">> \in DOMAIN flags /\ flags[<<"A">>].typ = "string"
  /\ Has(environ, <<"A">>) /\ environ[<<"A">>] = <<"3">>
  /\ looked[<<"A">>].calls = <<1>>
  /\ dst[<<"A">>] = Str(<<"x", "=", "3">>)

\* the binding of n was marked required: the first Options given say so
MarkedRequired(n) ==
  Len(flags[n].given) > 0 /\ flags[n].given[1].Required

\* the fallback configured for n: the DefaultValue of the first Options, the
\* zero value of the type when there are none
ConfiguredFallback(n) ==
  IF Len(flags[n].given) = 0 THEN Zero(flags[n].typ)
  ELSE flags[n].given[1].DefaultValue

\* the errors of the returned error that name n
ErrorsNaming(n) == { i \in 1..Len(ret.errs) : ret.errs[i][1].arg = n }

\* C2: after Parse, a binding marked required whose name the lookup did not
\* find has an error "is required but not found" naming it, and its
\* destination holds the value it held before (the fallback is not applied).
C2_RequiredMissing ==
  rpc = "returned" =>
    \A n \in DOMAIN flags :
      (MarkedRequired(n) /\ ~looked[n].ok) =>
        /\ \E i \in 1..Len(ret.errs) : ret.errs[i] = Err("is required but not found", n)
        /\ dst[n] = before[n]

\* C2 witness: a required name was not found, its destination held a value
\* that is neither the zero value nor the fallback, and still holds it
C2_Witness ==
  /\ rpc = "returned"
  /\ \E n \in DOMAIN flags :
       /\ MarkedRequired(n) /\ ~looked[n].ok
       /\ before[n] = Sample(flags[n].typ)
       /\ before[n] # ConfiguredFallback(n)
       /\ dst[n] = before[n]
       /\ ErrorsNaming(n) # {}

Fails(n) ==
  \/ ~looked[n].ok /\ flags[n].opts.required
  \/ looked[n].ok /\ GenericParse(flags[n].typ, before[n], looked[n].value).err # NoErr

\* C4: a Parse that returns has visited every binding once, recorded one
\* error for each binding that is required and missing or fails to parse
\* and none for the others, assigned the destinations of the bindings that
\* resolve, and returns nil iff no binding recorded an error.
C4_AllErrorsCollected ==
  rpc = "returned" =>
    /\ Len(visited) = Cardinality(DOMAIN flags)
    /\ {visited[i] : i \in 1..Len(visited)} = DOMAIN flags
    /\ \A n \in DOMAIN flags :
         /\ Cardinality(ErrorsNaming(n)) = IF Fails(n) THEN 1 ELSE 0
         /\ ~Fails(n) =>
              dst[n] = IF looked[n].ok
                         THEN GenericParse(flags[n].typ, before[n], looked[n].value).val
                         ELSE flags[n].opts.fallback
    /\ Len(ret.errs) = Cardinality({n \in DOMAIN flags : Fails(n)})
    /\ ret.nil <=> (\A n \in DOMAIN flags : ~Fails(n))

\* C4 witness: the binding visited first recorded an error and the one
\* visited after it was still resolved and assigned
C4_Witness ==
  /\ rpc = "returned"
  /\ Len(visited) = 2
  /\ Fails(visited[1]) /\ ~Fails(visited[2])
  /\ looked[visited[2]].ok
  /\ dst[visited[2]] # before[visited[2]]
  /\ ~ret.nil

(***************************************************************************)
(* Claims about the value parsing engine.                                  *)
(***************************************************************************)
\* C10: at top level a destination whose type has a text hook is decoded by
\* one call of that hook on the raw text and the hook's result is the
\* outcome, whether or not the type also has a binary hook and whatever its
\* kind; the binary hook is called, once, only when there is no text hook;
\* no hook is called when the type has neither.
C10_HookPriority ==
  emode = "top" =>
    IF TypeOf(etype).text # "none"
      THEN /\ eout.calls = Call("UnmarshalText", etext)
           /\ eout.err = UnmarshalText(etype, eold, etext).err
           /\ eout.val = UnmarshalText(etype, eold, etext).val
    ELSE IF TypeOf(etype).bin # "none"
      THEN /\ eout.calls = Call("UnmarshalBinary", etext)
           /\ eout.err = UnmarshalBinary(etype, eold, etext).err
           /\ eout.val = UnmarshalBinary(etype, eold, etext).val
    ELSE eout.calls = <<>>

\* C10 witness: a type with both hooks was decoded by its text hook alone,
\* and the text is one the binary hook would have refused
C10_Witness ==
  /\ emode = "top"
  /\ TypeOf(etype).text # "none" /\ TypeOf(etype).bin # "none"
  /\ eout.calls = Call("UnmarshalText", etext)
  /\ eout.err = NoErr
  /\ UnmarshalBinary(etype, eold, etext).err # NoErr

(***************************************************************************)
(* Claims about the command-line tokenizer.                                *)
(***************************************************************************)
\* the flag name a token stands for: leading dashes stripped, lowercased
FlagNameOf(tok) == ToLower(TrimLeft(tok, "-"))

\* a token beginning with '-' that holds no '=' and names a flag
IsBareFlag(tok) ==
  HasPrefix(tok, "-") /\ ~Cut(tok, "=").found /\ TrimLeft(tok, "-") # <<>>

\* C5: at the end of the input a flag that is still pending and has
\* collected no value is in the resulting table with the single value "true".
C5_PendingFlagAtEndIsTrue ==
  (tpc = "done" /\ flag # <<>> /\ Len(Get(m, flag)) = 0)
    => (Has(m, flag) /\ m[flag] = <<TrueText>>)

\* C6: when a token beginning with '-' is scanned while a flag is pending
\* that has no collected values, the pending flag's name is recorded with
\* the value "true" first (a key=value token for the same name appends its
\* value after it), and the stripped, lowercased token becomes the pending
\* flag.
C6_FlagAfterFlagRecordsTrue ==
  [][ ( /\ tpc = "scan" /\ pos < Len(args) /\ pos' = pos + 1
        /\ HasPrefix(args[pos + 1], "-")
        /\ flag # <<>> /\ Len(Get(m, flag)) = 0 )
      => LET tok == args[pos + 1]
             c   == Cut(FlagNameOf(tok), "=")
         IN /\ Has(m', flag)
            /\ Head(m'[flag]) = TrueText
            /\ ~(c.found /\ c.before = flag) => m'[flag] = <<TrueText>>
            /\ ~c.found => flag' = FlagNameOf(tok) ]_vars

\* C6 witness: two bare flags in a row have been scanned and the first one
\* stands in the table as "true"
C6_Witness ==
  /\ pos >= 2
  /\ IsBareFlag(args[pos - 1]) /\ IsBareFlag(args[pos])
  /\ FlagNameOf(args[pos - 1]) # FlagNameOf(args[pos])
  /\ Get(m, FlagNameOf(args[pos - 1])) = <<TrueText>>
  /\ flag = FlagNameOf(args[pos])

\* C7: after a flag token holding '=' the last value under the lowercased
\* left-hand name is exactly the text right of the first '=' as written
\* (case and later '=' kept), and no flag is pending.
C7_KeyValueKeepsValueAsWritten ==
  (pos >= 1 /\ HasPrefix(args[pos], "-") /\ Cut(args[pos], "=").found)
    => LET c == Cut(TrimLeft(args[pos], "-"), "=")
       IN /\ Has(m, ToLower(c.before))
          /\ m[ToLower(c.before)][Len(m[ToLower(c.before)])] = c.after
          /\ flag = <<>>

\* C8: a token not beginning with '-' is appended to the values of the
\* pending flag and clears the pending state; with no flag pending it leaves
\* the table and the pending state as they are, so the second of two
\* non-flag tokens in a row is dropped.
C8_NonFlagTokens ==
  [][ ( /\ tpc = "scan" /\ pos < Len(args) /\ pos' = pos + 1
        /\ ~HasPrefix(args[pos + 1], "-") )
      => /\ flag # <<>> =>
              /\ Get(m', flag) = Append(Get(m, flag), args[pos + 1])
              /\ DOMAIN m' = (DOMAIN m) \cup {flag}
              /\ \A k \in (DOMAIN m) \ {flag} : m'[k] = m[k]
              /\ flag' = <<>>
         /\ flag = <<>> => (m' = m /\ flag' = flag)
         /\ (pos >= 1 /\ ~HasPrefix(args[pos], "-")) => m' = m ]_vars

\* C8 witness: a bare flag and then a non-flag token have been scanned, the
\* token is the flag's last value and nothing is pending
C8_Witness ==
  /\ pos >= 2
  /\ IsBareFlag(args[pos - 1]) /\ ~HasPrefix(args[pos], "-")
  /\ Has(m, FlagNameOf(args[pos - 1]))
  /\ m[FlagNameOf(args[pos - 1])][Len(m[FlagNameOf(args[pos - 1])])] = args[pos]
  /\ flag = <<>>

\* the table key of a requested name: lowercased, every '_' made a '-'
KeyOfName(n) == [k \in 1..Len(n) |-> IF n[k] = "_" THEN "-" ELSE LowerChar(n[k])]

\* C9: the closure reports found iff the table has an entry under the
\* normalised name, and returns that entry's values joined with ','; the
\* values of an entry stay in the order their tokens were scanned (a scan
\* step only appends to an entry).
C9_LookupNormalisesAndJoins ==
  /\ [](got.asked =>
          /\ got.ok = (KeyOfName(got.name) \in DOMAIN m)
          /\ got.ok => got.value = Join(m[KeyOfName(got.name)], ",")
          /\ ~got.ok => got.value = <<>>)
  /\ [][ \A k \in DOMAIN m :
          /\ k \in DOMAIN m'
          /\ Len(m'[k]) >= Len(m[k])
          /\ SubSeq(m'[k], 1, Len(m[k])) = m[k] ]_vars

\* C9 witness: a name that differs from its key was found with two values
C9_Witness ==
  /\ got.asked /\ got.ok
  /\ got.name # KeyOfName(got.name)
  /\ Len(m[KeyOfName(got.name)]) = 2
  /\ got.value = m[KeyOfName(got.name)][1] \o <<",">> \o m[KeyOfName(got.name)][2]

(***************************************************************************)
(* Claims about sequence and mapping destinations, on the engine.          *)
(***************************************************************************)
NoHooks(name) == TypeOf(name).text = "none" /\ TypeOf(name).bin = "none"

IsContainer(name) == TypeOf(name).kind \in {"slice", "map"}

\* a top-level flat sequence type whose element type is not byte
IsFlatSlice(name) ==
  /\ TypeOf(name).kind = "slice" /\ NoHooks(name)
  /\ TypeOf(name).elem # "uint8"
  /\ ~IsContainer(TypeOf(name).elem)

\* a top-level flat mapping type
IsFlatMap(name) ==
  /\ TypeOf(name).kind = "map" /\ NoHooks(name)
  /\ ~IsContainer(TypeOf(name).key) /\ ~IsContainer(TypeOf(name).elem)

Blank(text) == TrimSpace(text) = <<>>

\* a value of type T with the nil slice and the nil map taken for the empty
\* ones: what a caller sees of it through len, range and indexing
Contents(T, v) ==
  IF v = Nil /\ TypeOf(T).kind = "slice" THEN <<"slice", <<>> >>
  ELSE IF v = Nil /\ TypeOf(T).kind = "map" THEN <<"map", EmptyMap>>
  ELSE v

Commas(text) == Cardinality({ k \in 1..Len(text) : text[k] = "," })

\* the engine on a fresh element, key or value of type T and the text sub
ElemOf(T, sub) == parse([typ |-> T, addr |-> FALSE, val |-> Zero(T)], sub, FALSE)

\* C11: parsing empty or whitespace-only text into a top-level flat sequence
\* whose element type is not byte succeeds and leaves the empty sequence.
C11_BlankTextGivesEmptySlice ==
  (emode = "top" /\ IsFlatSlice(etype) /\ Blank(etext)) =>
     /\ eout.err = NoErr
     /\ eout.val = <<"slice", <<>> >>

\* C12: non-empty text whose comma-separated substrings all parse as
\* elements gives a top-level flat sequence one element per substring
\* (number of commas + 1), element i being the parse of substring i.
C12_OneElementPerSubstring ==
  (/\ emode = "top" /\ IsFlatSlice(etype) /\ etext # <<>>
   /\ \A i \in 1..Len(Split(etext, ",")) :
        ElemOf(TypeOf(etype).elem, Split(etext, ",")[i]).err = NoErr) =>
     /\ eout.err = NoErr
     /\ eout.val[1] = "slice"
     /\ Len(eout.val[2]) = Commas(etext) + 1
     /\ \A i \in 1..(Commas(etext) + 1) :
          eout.val[2][i] = ElemOf(TypeOf(etype).elem, Split(etext, ",")[i]).val

\* C12 witness: 3,4 was parsed into a []int and gave 3 then 4
C12_Witness ==
  /\ emode = "top" /\ etype = "[]int" /\ etext = <<"3", ",", "4">>
  /\ eout.err = NoErr
  /\ eout.val = <<"slice", << <<"int", 3>>, <<"int", 4>> >> >>

\* C13: when parsing into a top-level sequence or mapping fails, the
\* destination holds what it held before the parse: neither the elements
\* parsed so far nor an emptied container.
C13_NoPartialCommit ==
  (/\ emode = "top" /\ (IsFlatSlice(etype) \/ IsFlatMap(etype))
   /\ eout.err # NoErr) =>
     Contents(etype, eout.val) = Contents(etype, eold)

\* the entries of a mapping text, those holding "=", and what the engine
\* gives on the key and on the value of entry e of a mapping of type T
Entries(text) == Split(TrimSpace(text), ",")

EqEntries(text) ==
  { i \in 1..Len(Entries(text)) : Cut(Entries(text)[i], "=").found }

KeyText(text, i) == Cut(Entries(text)[i], "=").before

KeyOfEntry(T, text, i) == ElemOf(TypeOf(T).key, KeyText(text, i))

ValOfEntry(T, text, i) ==
  ElemOf(TypeOf(T).elem, Cut(Entries(text)[i], "=").after)

EntryFails(T, text, i) ==
  KeyOfEntry(T, text, i).err # NoErr \/ ValOfEntry(T, text, i).err # NoErr

C16_NestingRejected ==
  /\ (emode = "elem" /\ TypeOf(etype).kind = "slice") =>
       eout = Outcome(Err("cannot support deep slices", <<>>), eold, <<>>)
  /\ (emode = "elem" /\ TypeOf(etype).kind = "map") =>
       eout = Outcome(Err("cannot support deep maps", <<>>), eold, <<>>)
  /\ (/\ emode = "top" /\ TypeOf(etype).kind = "slice" /\ NoHooks(etype)
      /\ IsContainer(TypeOf(etype).elem)) =>
       eout.err = Err("cannot support deep slices", <<>>)
  /\ (/\ emode = "top" /\ TypeOf(etype).kind = "map" /\ NoHooks(etype)
      /\ IsContainer(TypeOf(etype).elem) /\ EqEntries(etext) # {}) =>
       eout.err # NoErr

\* C16 witness: a [][]int failed on its first element, and a
\* map[string][]int on the value of its first entry
C16_Witness ==
  /\ emode = "top" /\ etext = <<"x", "=", "3">>
  /\ \/ etype = "[][]int" /\ eout.err = Err("cannot support deep slices", <<>>)
     \/ /\ etype = "map[string][]int"
        /\ eout.err = Wrap("failed to parse value at key", <<"x">>,
                           Err("cannot support deep slices", <<>>))

\* the entry of a mapping text that fails first, in the order of the text,
\* and the error the claim gives for it: the key is looked at before the
\* value
FirstFailing(T, text) ==
  CHOOSE i \in EqEntries(text) :
    /\ EntryFails(T, text, i)
    /\ \A j \in EqEntries(text) : j < i => ~EntryFails(T, text, j)

EntryError(T, text, i) ==
  IF KeyOfEntry(T, text, i).err # NoErr
    THEN Wrap("failed to parse key", KeyText(text, i), KeyOfEntry(T, text, i).err)
    ELSE Wrap("failed to parse value at key", KeyText(text, i),
              ValOfEntry(T, text, i).err)

ReturnedErrors == { ret.errs[i] : i \in 1..Len(ret.errs) }

\* C15: a mapping text with a malformed entry makes the pass return, for
\* the flag, "failed to parse <name>" wrapping the error of the first
\* failing entry in the order of the text: "failed to parse key" with the
\* key text and its cause when the key is malformed, whatever the value,
\* and "failed to parse value at key" with the key text and the cause when
\* only the value is.
C15_MapErrors ==
  rpc = "returned" =>
    \A n \in DOMAIN flags :
      (/\ IsFlatMap(flags[n].typ) /\ looked[n].ok /\ ~Blank(looked[n].value)
       /\ \E i \in EqEntries(looked[n].value) :
            EntryFails(flags[n].typ, looked[n].value, i)) =>
        Wrap("failed to parse", n,
             EntryError(flags[n].typ, looked[n].value,
                        FirstFailing(flags[n].typ, looked[n].value)))
          \in ReturnedErrors

\* C15 witness: x=3 into a map[int]bool, of which both the key and the
\* value are malformed, returned the error of the key
C15_Witness ==
  /\ rpc = "returned"
  /\ \E n \in DOMAIN flags :
       /\ flags[n].typ = "map[int]bool" /\ looked[n].ok
       /\ looked[n].value = <<"x", "=", "3">>
       /\ ParseBool(<<"3">>).err # NoErr
       /\ Wrap("failed to parse", n,
               Wrap("failed to parse key", <<"x">>, ParseInt(<<"x">>, 64).err))
            \in ReturnedErrors

\* what a registry built anew with the same flags on fresh variables holds
\* after one pass over the sources as they are
FreshDst ==
  ParseFlags([dst |-> [n \in DOMAIN flags |-> Zero(flags[n].typ)],
              errs |-> <<>>, visited |-> <<>>, looked |-> EmptyMap,
              panic |-> FALSE],
             flags, lookup, environ,
             CHOOSE order \in Orders(DOMAIN flags) : TRUE).dst

\* C17: after passes over the same registry with the sources changing in
\* between, a last pass that returns no error leaves every destination with
\* the value a freshly built registry resolves to from the sources as they
\* are at that pass.
C17_DependsOnCurrentSources ==
  (rpc = "returned" /\ passes >= 1 /\ ret.nil) =>
    \A n \in DOMAIN flags :
      Contents(flags[n].typ, dst[n]) = Contents(flags[n].typ, FreshDst[n])

\* C18: a pass that follows a pass over unchanged sources leaves every
\* destination as the first left it and returns the same set of errors.
C18_Idempotent ==
  [][(rpc = "returned" /\ passes >= 1 /\ passes' = passes + 1 /\ rpc' = "returned")
       => /\ dst' = dst
          /\ { ret'.errs[i] : i \in 1..Len(ret'.errs) } = ReturnedErrors]_vars

\* C18 witness: a second pass over unchanged sources returned an error for
\* one flag, resolved another from a text, and changed no destination
C18_Witness ==
  /\ rpc = "returned" /\ passes = 2
  /\ ~ret.nil
  /\ dst = before
  /\ \E n \in DOMAIN flags :
       looked[n].ok /\ dst[n] # Zero(flags[n].typ) /\ ErrorsNaming(n) = {}

\* a lookup composed from no func at all, or from nil funcs only
ComposedFromNone ==
  lookup.direct \/ \A i \in 1..Len(lookup.fns) : lookup.fns[i] = "nil"

\* C19: a lookup composed from no lookup func, or from nil ones only, by
\* MakeEnvSet or by SetLookupFunc, calls no func and gives for every name
\* what the process environment gives: no pass panics on it.
C19_NoFuncsMeansEnvironment ==
  (rpc \in {"returned", "panicked"} /\ ComposedFromNone) =>
    /\ rpc = "returned"
    /\ \A n \in DOMAIN looked :
         /\ looked[n].calls = <<>>
         /\ looked[n].ok = LookupEnv(environ, n).ok
         /\ looked[n].value = LookupEnv(environ, n).value

\* the hook the decision order picks for a type that has one
HookOf(T) ==
  IF TypeOf(T).text # "none" THEN "UnmarshalText" ELSE "UnmarshalBinary"

\* the first entry of a mapping text that holds "="
FirstEntry(text) ==
  CHOOSE i \in EqEntries(text) : \A j \in EqEntries(text) : i <= j

\* C20: the elements of a sequence whose element type has a decoding hook
\* on the pointer receiver are decoded by that hook, called once on each
\* substring in order, and so is the key of a mapping whose key type has
\* one, beginning with the key of the first entry.
C20_ElementsUseHooks ==
  /\ (/\ emode = "top" /\ IsFlatSlice(etype) /\ etext # <<>>
      /\ ~NoHooks(TypeOf(etype).elem)) =>
       /\ Len(eout.calls) = Commas(etext) + 1
       /\ \A i \in 1..Len(eout.calls) :
            eout.calls[i] = [hook |-> HookOf(TypeOf(etype).elem),
                             data |-> Split(etext, ",")[i]]
  /\ (/\ emode = "top" /\ IsFlatMap(etype) /\ EqEntries(etext) # {}
      /\ ~NoHooks(TypeOf(etype).key)) =>
       /\ Len(eout.calls) >= 1
       /\ eout.calls[1] = [hook |-> HookOf(TypeOf(etype).key),
                           data |-> KeyText(etext, FirstEntry(etext))]

\* the value m[k][i] was stored by the default branch: it is the token that
\* follows a bare flag named k, and that token does not begin with '-'
FromValueToken(k, v) ==
  \E j \in 2..pos :
    /\ args[j] = v /\ ~HasPrefix(args[j], "-")
    /\ IsBareFlag(args[j - 1]) /\ FlagNameOf(args[j - 1]) = k

\* the value was stored by a key=value token
FromKeyValueToken(k, v) ==
  \E j \in 1..pos :
    /\ HasPrefix(args[j], "-")
    /\ Cut(FlagNameOf(args[j]), "=") = [found |-> TRUE, before |-> k, after |-> v]

\* C21: no token beginning with '-' is stored as the value of the pending
\* flag: every value of the table is "true", the right-hand side of a
\* key=value token, or a token without the prefix that follows its flag; a
\* token with the prefix and without '=' that follows a pending flag without
\* values leaves that flag with the single value "true" and is the pending
\* flag afterwards.
C21_DashTokenIsNeverAValue ==
  /\ [](\A k \in DOMAIN m : \A i \in 1..Len(m[k]) :
          \/ m[k][i] = TrueText
          \/ FromKeyValueToken(k, m[k][i])
          \/ FromValueToken(k, m[k][i]))
  /\ [][ ( /\ tpc = "scan" /\ pos < Len(args) /\ pos' = pos + 1
           /\ HasPrefix(args[pos + 1], "-") /\ ~Cut(args[pos + 1], "=").found
           /\ flag # <<>> /\ Len(Get(m, flag)) = 0 )
         => /\ Get(m', flag) = <<TrueText>>
            /\ \A k \in DOMAIN m' : k # flag => (Has(m, k) /\ m'[k] = m[k])
            /\ flag' = FlagNameOf(args[pos + 1]) ]_vars

\* C21 witness: --a -5 was scanned: a stands in the table as "true" alone
\* and 5 is the pending flag
C21_Witness ==
  /\ pos >= 2
  /\ args[pos - 1] = <<"-", "-", "a">> /\ args[pos] = <<"-", "5">>
  /\ Get(m, <<"a">>) = <<TrueText>>
  /\ flag = <<"5">>

====
